---- MODULE Spec2Model ----
(***************************************************************************)
(* The Telegram -> Discord relay of TediCross                               *)
(* (src/lib/telegram2discord/setup.js): the wrapper every Telegram event    *)
(* goes through (createMessageHandler), the handlers setup() registers, the *)
(* file sender, and the promises they wait on.                              *)
(*                                                                          *)
(* JavaScript runs a handler without interruption up to its next `await`;   *)
(* every action below is one such run: from an event's arrival, or from the *)
(* settling of the promise a handler waits on, to the handler's next await  *)
(* (or its end).                                                            *)
(***************************************************************************)
EXTENDS Integers, Sequences, FiniteSets, TLC

VARIABLES
    me,          \* tgBot.telegram.me: <<>> while undefined, else <<bot>>
    dcReady,     \* dcBot.ready has been fulfilled
    delivered,   \* the updates delivered so far, each with tgBot.telegram.me as line 112
                 \* read it (<<>> also when the message has no text and it was not read)
    invoked,     \* calls func(message, bridge) made by createMessageHandler, in order
    tgOut,       \* tgBot.telegram.sendMessage calls, in order
    tasks,       \* the handler runs (one per async function call), in start order
    inflight,    \* requests sent to Discord or Telegram and not yet answered
    dcServer,    \* the messages Discord holds, in arrival order; a message's id is its index
    messageMap,  \* MessageMap: <<direction, from id>> -> to id
    unhandled,   \* handler runs whose promise rejected with nothing catching it
    traffic      \* the updates the chats of this run produce

vars == <<me, dcReady, delivered, invoked, tgOut, tasks, inflight, dcServer,
          messageMap, unhandled, traffic>>

-----------------------------------------------------------------------------
(* Bounds of the model *)

\* updates delivered in one run
MaxEvents == 2

-----------------------------------------------------------------------------
(* JavaScript values *)

\* A string is its first characters, one by one, followed by `pad` more characters, all
\* of them the lower-case filler "x". (A text of 4001 characters is 4001 values otherwise.)
Str(chars, pad) == [chars |-> chars, pad |-> pad]

Length(s) == Len(s.chars) + s.pad

UpperToLower ==
    [c \in {"A", "B", "C", "F", "H", "I", "N", "O", "T"} |->
        CASE c = "A" -> "a" [] c = "B" -> "b" [] c = "C" -> "c" [] c = "F" -> "f"
          [] c = "H" -> "h" [] c = "I" -> "i" [] c = "N" -> "n" [] c = "O" -> "o"
          [] c = "T" -> "t"]

\* String.prototype.toLowerCase
ToLowerCase(s) ==
    Str([i \in 1..Len(s.chars) |->
            IF s.chars[i] \in DOMAIN UpperToLower THEN UpperToLower[s.chars[i]]
            ELSE s.chars[i]],
        s.pad)

\* s.substring(lo - 1, hi): the characters lo..hi of s (1-based, inclusive)
Slice(s, lo, hi) ==
    LET n  == Len(s.chars)
        hc == IF hi < n THEN hi ELSE n
    IN  Str(IF lo <= hc THEN SubSeq(s.chars, lo, hc) ELSE <<>>,
            IF hi <= n THEN 0 ELSE hi - (IF lo > n THEN lo - 1 ELSE n))

\* a + b
Concat(a, b) ==
    IF b.chars = <<>> THEN Str(a.chars, a.pad + b.pad)
    ELSE Str(a.chars \o [i \in 1..a.pad |-> "x"] \o b.chars, b.pad)

\* JavaScript's undefined, where the value is a string otherwise
Undefined == "undefined"

\* obj.field !== undefined, for a field that holds an object when it is there
Has(obj, field) == field \in DOMAIN obj

\* A text the code puts together from names and fixed parts is kept as those pieces, a
\* piece standing where a character stands otherwise. (Such a text is far shorter than
\* any limit, so nothing depends on its exact length.)
Text(pieces) == Str(pieces, 0)

\* text.includes(part), for a part made of whole pieces
Contains(text, part) ==
    \E i \in 1..(Len(text.chars) - Len(part) + 1) :
        SubSeq(text.chars, i, i + Len(part) - 1) = part

-----------------------------------------------------------------------------
(* Configuration: the bot, the settings and the bridges *)

\* the bot, as getMe() returns it
Bot == [id |-> 100, username |-> Str(<<"T", "B", "o", "t">>, 0)]

Settings == [telegram |-> [sendEmojiWithStickers |-> TRUE]]

DIRECTION_DISCORD_TO_TELEGRAM == "d2t"
DIRECTION_TELEGRAM_TO_DISCORD == "t2d"
DIRECTION_BOTH == "both"

TELEGRAM_TO_DISCORD == "t2d"
DISCORD_TO_TELEGRAM == "d2t"

MakeBridge(name, chatId, channelId, direction, join, leave, emoji) ==
    [name |-> name,
     direction |-> direction,
     telegram |-> [chatId |-> chatId, relayJoinMessages |-> join,
                   relayLeaveMessages |-> leave, sendEmojiWithStickers |-> emoji],
     discord |-> [channelId |-> channelId]]

BridgeA == MakeBridge("A", 1, "chA", DIRECTION_BOTH, TRUE, TRUE, TRUE)
BridgeB == MakeBridge("B", 2, "chB", DIRECTION_TELEGRAM_TO_DISCORD, FALSE, FALSE, FALSE)
BridgeC == MakeBridge("C", 3, "chC", DIRECTION_DISCORD_TO_TELEGRAM, TRUE, TRUE, TRUE)

Bridges == {BridgeA, BridgeB, BridgeC}

\* the chats updates come from; chat 4 is one no bridge names
Chats == 1..4

\* bridgeMap.fromTelegramChatId: <<>> for undefined
fromTelegramChatId(chatId) ==
    IF \E b \in Bridges : b.telegram.chatId = chatId
    THEN <<CHOOSE b \in Bridges : b.telegram.chatId = chatId>>
    ELSE <<>>

-----------------------------------------------------------------------------
(* The workload: the updates Telegram may deliver *)

\* the destination's single-message limit, as the text handler's pattern states it
ChunkSize == 2000

Ann == [first_name |-> "A", last_name |-> "Lee", username |-> "ann"]
Bo  == [first_name |-> "B", last_name |-> Undefined, username |-> Undefined]
Cy  == [first_name |-> "C", last_name |-> Undefined, username |-> "cy"]

Hi == Str(<<"h", "i">>, 0)
ChatInfoCommand ==
    Str(<<"@", "T", "B", "o", "t", " ", "c", "h", "a", "t", "i", "n", "f", "o">>, 0)
ChatInfoShouted ==
    Str(<<"@", "t", "b", "o", "t", " ", "C", "H", "A", "T", "I", "N", "F", "O">>, 0)
ChatInfoOtherBot ==
    Str(<<"@", "O", "B", "o", "t", " ", "c", "h", "a", "t", "i", "n", "f", "o">>, 0)
\* a text of n characters
TextOfLength(n) == Str(<<"h", "i">>, n - 2)

Message(id, chatId) == [message_id |-> id, chat |-> [id |-> chatId], from |-> Ann]

TextMessage(id, chatId, text) == Message(id, chatId) @@ [text |-> text]
PhotoMessage(id, chatId, caption) ==
    Message(id, chatId) @@
    [photo |-> <<[file_id |-> "photo-small"], [file_id |-> "photo-large"]>>,
     caption |-> caption]
StickerMessage(id, chatId) ==
    Message(id, chatId) @@
    [sticker |-> [file_id |-> "sticker", thumb |-> [file_id |-> "sticker-thumb"],
                  emoji |-> ":-)"]]
DocumentMessage(id, chatId, fileName, mimeType) ==
    Message(id, chatId) @@
    [document |-> [file_id |-> "document", file_name |-> fileName, mime_type |-> mimeType]]
VoiceMessage(id, chatId, mimeType) ==
    Message(id, chatId) @@ [voice |-> [file_id |-> "voice", mime_type |-> mimeType]]
AudioMessage(id, chatId, title, mimeType) ==
    Message(id, chatId) @@
    [audio |-> [file_id |-> "audio", title |-> title, mime_type |-> mimeType]]
VideoMessage(id, chatId, caption, mimeType) ==
    Message(id, chatId) @@
    [video |-> [file_id |-> "video", mime_type |-> mimeType], caption |-> caption]
JoinMessage(id, chatId, users) == Message(id, chatId) @@ [new_chat_members |-> users]
LeaveMessage(id, chatId, user) == Message(id, chatId) @@ [left_chat_member |-> user]

\* The Telegraf context of an update: `on` names the tgBot.on(...) registration it is
\* delivered to; of message, channel_post and editedMessage it has the one the update is.
OnMessage(on, message) == [on |-> on, message |-> message]
OnChannelPost(on, message) == [on |-> on, channel_post |-> message]
OnEditedMessage(message) == [on |-> "edited_message", editedMessage |-> message]

\* a text that is over the limit once composed
LongText == TextOfLength(ChunkSize)

\* an update of every kind the handlers are registered for
OneOfEach(chatId) ==
    { OnMessage("text", TextMessage(1, chatId, Hi)),
      OnMessage("photo", PhotoMessage(3, chatId, Undefined)),
      OnMessage("sticker", StickerMessage(3, chatId)),
      OnMessage("document", DocumentMessage(3, chatId, "notes.txt", "text/plain")),
      OnMessage("voice", VoiceMessage(3, chatId, "audio/ogg")),
      OnMessage("audio", AudioMessage(3, chatId, "Song", "audio/mpeg")),
      OnMessage("video", VideoMessage(3, chatId, "look", "video/mp4")),
      OnMessage("new_chat_members", JoinMessage(3, chatId, <<Ann>>)),
      OnMessage("left_chat_member", LeaveMessage(3, chatId, Ann)),
      OnEditedMessage(TextMessage(1, chatId, Hi)) }

\* an ordinary text in the chat of bridge A, as every kind of traffic has it
Plain == OnMessage("text", TextMessage(1, 1, Hi))

\* The kinds of traffic of a run: the updates of a run are all of one kind.
\* Texts and their edits, with message ids that differ and that meet
TextTraffic ==
    { Plain,
      OnMessage("text", TextMessage(2, 1, Hi)),
      OnMessage("text", TextMessage(1, 1, LongText)),
      OnEditedMessage(TextMessage(1, 1, Hi)),
      OnEditedMessage(TextMessage(1, 1, LongText)) }

\* Requests for chat info and texts close to them, in every chat
CommandTraffic ==
    { Plain,
      OnMessage("text", TextMessage(1, 1, ChatInfoShouted)),
      OnMessage("text", TextMessage(1, 1, ChatInfoOtherBot)),
      OnEditedMessage(TextMessage(1, 1, ChatInfoShouted)) }
    \cup { OnMessage("text", TextMessage(1, c, ChatInfoCommand)) : c \in Chats }

\* Files sent with a fixed name
PictureTraffic ==
    { u \in OneOfEach(1) : u.on \in {"text", "photo", "sticker", "video"} }
    \cup { OnMessage("sticker", StickerMessage(3, 2)) }

\* Files sent with a name made from the message
DocumentTraffic ==
    { u \in OneOfEach(1) : u.on \in {"text", "document", "voice", "audio"} }
    \cup { OnMessage("document", DocumentMessage(3, 1, Undefined, "audio/ogg")) }

\* Users who join and leave, where the bridge relays that and where it does not
MemberTraffic ==
    { OnMessage("new_chat_members", JoinMessage(3, 1, <<Ann, Bo>>)),
      OnMessage("left_chat_member", LeaveMessage(3, 1, Cy)),
      OnMessage("new_chat_members", JoinMessage(3, 2, <<Ann>>)),
      OnMessage("left_chat_member", LeaveMessage(3, 2, Ann)) }

\* Updates of every kind from the chat of a discord-to-telegram bridge
OneWayTraffic ==
    {Plain, OnChannelPost("text", TextMessage(2, 1, Hi)),
     OnMessage("text", TextMessage(1, 3, ChatInfoCommand))} \cup OneOfEach(3)

\* Updates of every kind from a chat with no bridge
UnbridgedTraffic ==
    {Plain, OnMessage("text", TextMessage(1, 4, ChatInfoCommand))} \cup OneOfEach(4)

Traffics ==
    {TextTraffic, CommandTraffic, PictureTraffic, DocumentTraffic, MemberTraffic,
     OneWayTraffic, UnbridgedTraffic}

Updates == UNION Traffics

-----------------------------------------------------------------------------
(* Collaborators of setup.js: the message converter, the message map, mime *)

\* messageConverter(message, ...): the sender's display name and the composed text, the
\* sender's label followed by the text
messageConverter(message) ==
    LET label == Str(<<"*", "*", message.from.first_name, "*", "*", "\n">>, 0)
    IN  [from |-> message.from.first_name,
         composed |-> IF Has(message, "text") THEN Concat(label, message.text) ELSE label]

\* messageMap.insert(direction, fromId, toId): the last write for a key wins
insert(map, direction, fromId, toId) ==
    [k \in DOMAIN map \cup {<<direction, fromId>>} |->
        IF k = <<direction, fromId>> THEN toId ELSE map[k]]

\* messageMap.getCorresponding(direction, fromId): <<toId>>, or <<>> when it rejects
\* because there is no entry
getCorresponding(map, direction, fromId) ==
    IF <<direction, fromId>> \in DOMAIN map THEN <<map[<<direction, fromId>>]>> ELSE <<>>

\* mime.getExtension(type) of mime/lite: the first extension the type lists
getExtension(mimeType) ==
    CASE mimeType = "audio/ogg" -> "oga"
      [] mimeType = "audio/mpeg" -> "mpga"
      [] mimeType = "video/mp4" -> "mp4"
      [] mimeType = "text/plain" -> "txt"
      [] OTHER -> "null"

-----------------------------------------------------------------------------
(* createMessageHandler *)

\* lines 105-110: ordinary messages and channel posts are treated the same
ExtractMessage(ctx) ==
    IF Has(ctx, "message") \/ Has(ctx, "channel_post")
    THEN (IF Has(ctx, "message") THEN ctx.message ELSE ctx.channel_post)
    ELSE ctx.editedMessage

ChatInfoSuffix == Str(<<" ", "c", "h", "a", "t", "i", "n", "f", "o">>, 0)

\* IsChatInfoRequest, were the text compared as it is written
IsChatInfoRequestExactCase(message, botMe) ==
    /\ Has(message, "text")
    /\ botMe # <<>>
    /\ message.text = Concat(Concat(Str(<<"@">>, 0), botMe[1].username), ChatInfoSuffix)

\* line 112: the message is a request for chat info
IsChatInfoRequest(message, botMe) ==
    /\ Has(message, "text")
    /\ botMe # <<>>
    /\ ToLowerCase(message.text)
         = ToLowerCase(Concat(Concat(Str(<<"@">>, 0), botMe[1].username), ChatInfoSuffix))

\* line 140: the bridge is not a discord-to-telegram bridge
RelaysToDiscord(bridge) == bridge.direction # DIRECTION_DISCORD_TO_TELEGRAM

ChatInfoReply(message) ==
    [chat_id |-> message.chat.id, text |-> <<"chatID: ", message.chat.id>>]

AdvisoryNotice(message) ==
    [chat_id |-> message.chat.id,
     text |-> <<"This is an instance of a [TediCross](https://github.com/TediCross/TediCross) bot, ",
                "bridging a chat in Telegram with one in Discord. ",
                "If you wish to use TediCross yourself, please download and create an instance. ",
                "Join our [Telegram group](https://t.me/TediCrossSupport) or [Discord server](https://discord.gg/MfzGMzy) for help">>,
     parse_mode |-> "markdown"]

-----------------------------------------------------------------------------
(* The handlers, up to their first await *)

\* makeNameObject, were the last name left out
makeNameObjectFirstNameOnly(user) ==
    [name |-> <<user.first_name>>,
     username |-> IF user.username # Undefined THEN <<"@", user.username>>
                  ELSE <<"No username">>]

\* lines 74-91: makeNameObject(user)
makeNameObject(user) ==
    [name |-> <<user.first_name>> \o
              (IF user.last_name # Undefined THEN <<" ", user.last_name>> ELSE <<>>),
     username |-> IF user.username # Undefined THEN <<"@", user.username>>
                  ELSE <<"No username">>]

\* a run of an async function, waiting for dcBot.ready
NewTask(ev, kind, message, bridge, local) ==
    [ev |-> ev, kind |-> kind, pc |-> "ready", message |-> message, bridge |-> bridge,
     local |-> local, calls |-> <<>>, errors |-> 0, log |-> <<>>]

\* SendFileTask, were the extension resolved whatever the caller asks for
SendFileTaskResolving(ev, message, bridge, what, fileId, fileName, caption, resolveExtension) ==
    NewTask(ev, "file", message, bridge,
            [what |-> what, fileId |-> fileId, fileName |-> fileName,
             textToSend |-> Text(<<"**", messageConverter(message).from, "**:\n",
                                   IF caption = Undefined THEN "" ELSE caption>>),
             resolveExtension |-> TRUE])

\* sendFile(bridge, {message, fileId, fileName, caption = "", resolveExtension = false}),
\* lines 39-48; `what` is the word of the calling handler's log line
SendFileTask(ev, message, bridge, what, fileId, fileName, caption, resolveExtension) ==
    LET messageObj == messageConverter(message)
    IN  NewTask(ev, "file", message, bridge,
                [what |-> what, fileId |-> fileId, fileName |-> fileName,
                 textToSend |-> Text(<<"**", messageObj.from, "**:\n",
                                       IF caption = Undefined THEN "" ELSE caption>>),
                 resolveExtension |-> resolveExtension])

JoinText(user) ==
    LET nameObj == makeNameObject(user)
    IN  Text(<<"**">> \o nameObj.name \o <<" (">> \o nameObj.username
                \o <<")** joined the Telegram side of the chat">>)

LeaveText(user) ==
    LET nameObj == makeNameObject(user)
    IN  Text(<<"**">> \o nameObj.name \o <<" (">> \o nameObj.username
                \o <<")** left the Telegram side of the chat">>)

\* The runs func(message, bridge) starts, for the handler registered for `on`
HandlerTasks(on, ev, message, bridge) ==
    CASE on = "text" ->
            <<NewTask(ev, "text", message, bridge,
                      [composed |-> messageConverter(message).composed])>>
      [] on = "photo" ->
            <<SendFileTask(ev, message, bridge, "photo",
                           message.photo[Len(message.photo)].file_id,
                           <<"photo.jpg">>, message.caption, FALSE)>>
      [] on = "sticker" ->
            <<SendFileTask(ev, message, bridge, "sticker",
                           message.sticker.thumb.file_id, <<"sticker.webp">>,
                           IF Settings.telegram.sendEmojiWithStickers
                           THEN message.sticker.emoji ELSE Undefined,
                           FALSE)>>
      [] on = "document" ->
            <<SendFileTask(ev, message, bridge, "document",
                           message.document.file_id,
                           IF message.document.file_name = Undefined
                           THEN <<"file.", getExtension(message.document.mime_type)>>
                           ELSE <<message.document.file_name>>,
                           Undefined, FALSE)>>
      [] on = "voice" ->
            <<SendFileTask(ev, message, bridge, "voice",
                           message.voice.file_id,
                           <<"voice", ".", getExtension(message.voice.mime_type)>>,
                           Undefined, FALSE)>>
      [] on = "audio" ->
            <<SendFileTask(ev, message, bridge, "audio",
                           message.audio.file_id, <<message.audio.title>>,
                           Undefined, TRUE)>>
      [] on = "video" ->
            <<SendFileTask(ev, message, bridge, "video",
                           message.video.file_id,
                           <<"video", ".", getExtension(message.video.mime_type)>>,
                           message.caption, FALSE)>>
      [] on = "new_chat_members" ->
            IF ~bridge.telegram.relayJoinMessages THEN <<>>
            ELSE [i \in 1..Len(message.new_chat_members) |->
                    NewTask(ev, "join", message, bridge,
                            [text |-> JoinText(message.new_chat_members[i])])]
      [] on = "left_chat_member" ->
            IF ~bridge.telegram.relayLeaveMessages THEN <<>>
            ELSE <<NewTask(ev, "leave", message, bridge,
                           [text |-> LeaveText(message.left_chat_member)])>>
      [] on = "edited_message" ->
            <<NewTask(ev, "edit", message, bridge, [dcMessageId |-> 0, entry |-> 0])>>

\* Route, were a chat with no bridge passed over in silence
RouteUnbridgedSilent(message, botMe) ==
    IF IsChatInfoRequest(message, botMe) THEN "chatinfo"
    ELSE IF fromTelegramChatId(message.chat.id) = <<>> THEN "nothing"
    ELSE IF RelaysToDiscord(fromTelegramChatId(message.chat.id)[1]) THEN "func"
    ELSE "nothing"

\* Route, were the direction of the bridge not looked at
RouteAnyDirection(message, botMe) ==
    IF IsChatInfoRequest(message, botMe) THEN "chatinfo"
    ELSE IF fromTelegramChatId(message.chat.id) = <<>> THEN "advisory"
    ELSE "func"

\* lines 112-143: what createMessageHandler does with a message: answer the request for
\* chat info, tell the sender that this is a private bot, call func, or nothing
Route(message, botMe) ==
    IF IsChatInfoRequest(message, botMe) THEN "chatinfo"
    ELSE IF fromTelegramChatId(message.chat.id) = <<>> THEN "advisory"
    ELSE IF RelaysToDiscord(fromTelegramChatId(message.chat.id)[1]) THEN "func"
    ELSE "nothing"

\* createMessageHandler(tgBot, bridgeMap, func, ctx), for the `ev`-th update
CreateMessageHandler(ev, ctx) ==
    LET message == ExtractMessage(ctx)
        bridge  == fromTelegramChatId(message.chat.id)
        route   == Route(message, me)
    IN  /\ tgOut' = CASE route = "chatinfo" ->
                            Append(tgOut, [ev |-> ev, call |-> ChatInfoReply(message)])
                      [] route = "advisory" ->
                            Append(tgOut, [ev |-> ev, call |-> AdvisoryNotice(message)])
                      [] OTHER -> tgOut
        /\ invoked' = IF route = "func"
                      THEN Append(invoked, [ev |-> ev, on |-> ctx.on,
                                            message |-> message, bridge |-> bridge[1]])
                      ELSE invoked
        /\ tasks' = IF route = "func"
                    THEN tasks \o HandlerTasks(ctx.on, ev, message, bridge[1])
                    ELSE tasks

\* Telegram delivers an update, and the handler registered for it runs to its first await
Deliver ==
    /\ \E ctx \in traffic :
        /\ delivered' = Append(delivered,
                               [ctx |-> ctx,
                                me |-> IF Has(ExtractMessage(ctx), "text") THEN me ELSE <<>>])
        /\ CreateMessageHandler(Len(delivered) + 1, ctx)
    /\ UNCHANGED <<me, dcReady, inflight, dcServer, messageMap, unhandled, traffic>>

Dispatch ==
    /\ Len(delivered) < MaxEvents
    /\ Deliver

-----------------------------------------------------------------------------
(* Requests, and what the handlers do when they are settled *)

Request(t, to, op, channelId, idx, content, file, target) ==
    [task |-> t, to |-> to, op |-> op, channelId |-> channelId, idx |-> idx,
     content |-> content, file |-> file, target |-> target]

\* dcBot.channels.get(bridge.discord.channelId).send(content [, attachment])
SendRequest(t, bridge, idx, content, file) ==
    Request(t, "discord", "send", bridge.discord.channelId, idx, content, file, 0)

\* AwaitReady, were the promise awaited one that is never settled
ReadyNeverSeen == FALSE

\* AwaitReady, were dcBot.ready not awaited
ReadyNotAwaited == TRUE

\* line 48, 204, 333, 354, 365: `await dcBot.ready` lets the handler go on
AwaitReady == dcReady

RECURSIVE Match(_, _)
\* the matches of /[\s\S]{1,2000}/g from position pos on: each takes as many characters
\* as there are, up to ChunkSize
Match(s, pos) ==
    IF pos > Length(s) THEN <<>>
    ELSE LET last == IF pos + ChunkSize - 1 < Length(s) THEN pos + ChunkSize - 1
                     ELSE Length(s)
         IN  <<Slice(s, pos, last)>> \o Match(s, last + 1)

\* Chunks, were the first character not matched
ChunksFromSecond(composed) == Match(composed, 2)

\* line 207: composed.match(/[\s\S]{1,2000}/g); <<>> for null
Chunks(composed) == Match(composed, 1)

\* NextChunks, were the sends started without awaiting each
NextChunksAllAtOnce(n, sent) == IF sent = 0 THEN [i \in 1..n |-> i] ELSE <<>>

\* lines 214-216: the chunks whose send is started once `sent` chunks have been sent and
\* awaited
NextChunks(n, sent) == IF sent < n THEN <<sent + 1>> ELSE <<>>

\* RecordMapping, were an entry the map has kept
RecordMappingFirstWins(map, message, dcMessageId) ==
    IF <<TELEGRAM_TO_DISCORD, message.message_id>> \in DOMAIN map THEN map
    ELSE insert(map, TELEGRAM_TO_DISCORD, message.message_id, dcMessageId)

\* line 219: the mapping of the text message to the message Discord made of it
RecordMapping(map, message, dcMessageId) ==
    insert(map, TELEGRAM_TO_DISCORD, message.message_id, dcMessageId)

\* TextCatch, were there no try around the sends: the handler's promise is rejected
TextCatchMissing(task, err) == [task EXCEPT !.pc = "rejected"]

\* lines 220-223: the text handler's catch
TextCatch(task, err) ==
    [task EXCEPT !.pc = "done",
                 !.log = @ \o << <<"[", task.bridge.name,
                                   "] Discord did not accept a text message:", err>>,
                                 <<"[", task.bridge.name, "] Failed message:",
                                   task.message.text>> >>]

\* lines 235-237, 249-251, 270-272, 284-286, 298-300, 313-315: the file handlers' catch
FileCatch(task, err) ==
    [task EXCEPT !.pc = "done",
                 !.log = Append(@, <<"[", task.bridge.name, "] Could not send ",
                                     task.local.what, err>>)]

\* lines 335-337, 356-358: the join and leave handlers' catch
NoticeCatch(task, err) ==
    [task EXCEPT !.pc = "done",
                 !.log = Append(@, <<"[", task.bridge.name,
                                     "] Could not notify Discord about a user that ",
                                     IF task.kind = "join" THEN "joined" ELSE "left",
                                     " Telegram", err>>)]

\* EditCatch, were a missing entry waited for: the handler looks the message up again
EditCatchRetries(task, err) ==
    [task EXCEPT !.pc = IF err = "No corresponding message" THEN "ready" ELSE "done",
                 !.log = Append(@, <<"[", task.bridge.name,
                                     "] Could not edit Discord message:", err>>)]

\* EditCatch, were the error thrown on: the handler's promise is rejected
EditCatchRethrows(task, err) == [task EXCEPT !.pc = "rejected"]

\* EditCatch, were the error swallowed without a log line
EditCatchSilent(task, err) == [task EXCEPT !.pc = "done"]

\* lines 377-380: the edit handler's catch
EditCatch(task, err) ==
    [task EXCEPT !.pc = "done",
                 !.log = Append(@, <<"[", task.bridge.name,
                                     "] Could not edit Discord message:", err>>)]

\* the runs whose promise rejected: nothing awaits or catches what func returns (line 141)
Rejected(ts) == {t \in 1..Len(ts) : ts[t].pc = "rejected"}

Issue(task, reqs) ==
    [task EXCEPT !.calls = @ \o [i \in 1..Len(reqs) |->
                                    [to |-> reqs[i].to, op |-> reqs[i].op,
                                     content |-> reqs[i].content, file |-> reqs[i].file,
                                     target |-> reqs[i].target]]]

Range(seq) == {seq[i] : i \in 1..Len(seq)}

\* The text handler, from dcBot.ready to the first send (lines 204-215)
TextReady(t) ==
    /\ tasks[t].kind = "text" /\ tasks[t].pc = "ready"
    /\ AwaitReady
    /\ LET task   == tasks[t]
           chunks == Chunks(task.local.composed)
           reqs   == [i \in 1..Len(NextChunks(Len(chunks), 0)) |->
                        SendRequest(t, task.bridge, NextChunks(Len(chunks), 0)[i],
                                    chunks[NextChunks(Len(chunks), 0)[i]], <<>>)]
       IN  IF chunks = <<>>
           THEN \* match gave null, and the loop over it throws
                /\ tasks' = [tasks EXCEPT ![t] = TextCatch(task, "TypeError")]
                /\ UNCHANGED inflight
           ELSE /\ tasks' = [tasks EXCEPT ![t] =
                                Issue([task EXCEPT !.pc = "send"], reqs)]
                /\ inflight' = inflight \cup Range(reqs)
    /\ unhandled' = Rejected(tasks')
    /\ UNCHANGED <<me, dcReady, delivered, invoked, tgOut, dcServer, messageMap, traffic>>

\* sendFile, from dcBot.ready to the getFile and getFileLink calls (lines 48-51)
FileReady(t) ==
    /\ tasks[t].kind = "file" /\ tasks[t].pc = "ready"
    /\ AwaitReady
    /\ LET task == tasks[t]
           req  == Request(t, "telegram", "getFile", "", 0, Text(<<task.local.fileId>>), <<>>, 0)
       IN  /\ tasks' = [tasks EXCEPT ![t] = Issue([task EXCEPT !.pc = "getFile"], <<req>>)]
           /\ inflight' = inflight \cup {req}
    /\ unhandled' = Rejected(tasks')
    /\ UNCHANGED <<me, dcReady, delivered, invoked, tgOut, dcServer, messageMap, traffic>>

\* The join and leave handlers, from dcBot.ready to the send (lines 333-334, 354-355)
NoticeReady(t) ==
    /\ tasks[t].kind \in {"join", "leave"} /\ tasks[t].pc = "ready"
    /\ AwaitReady
    /\ LET task == tasks[t]
           req  == SendRequest(t, task.bridge, 1, task.local.text, <<>>)
       IN  /\ tasks' = [tasks EXCEPT ![t] = Issue([task EXCEPT !.pc = "send"], <<req>>)]
           /\ inflight' = inflight \cup {req}
    /\ unhandled' = Rejected(tasks')
    /\ UNCHANGED <<me, dcReady, delivered, invoked, tgOut, dcServer, messageMap, traffic>>

\* The edit handler, from dcBot.ready to fetchMessage (lines 365-371)
EditReady(t) ==
    /\ tasks[t].kind = "edit" /\ tasks[t].pc = "ready"
    /\ AwaitReady
    /\ LET task  == tasks[t]
           found == getCorresponding(messageMap, TELEGRAM_TO_DISCORD,
                                     task.message.message_id)
           \* for the record: the entry the map held for the message at this moment
           key   == <<TELEGRAM_TO_DISCORD, task.message.message_id>>
           entry == IF key \in DOMAIN messageMap THEN messageMap[key] ELSE 0
       IN  IF found = <<>>
           THEN /\ tasks' = [tasks EXCEPT ![t] =
                                EditCatch([task EXCEPT !.local.entry = entry],
                                          "No corresponding message")]
                /\ UNCHANGED inflight
           ELSE LET req == Request(t, "discord", "fetchMessage",
                                   task.bridge.discord.channelId, 1, Text(<<>>), <<>>, found[1])
                IN  /\ tasks' = [tasks EXCEPT ![t] =
                                    Issue([task EXCEPT !.pc = "fetch",
                                                       !.local.dcMessageId = found[1],
                                                       !.local.entry = entry],
                                          <<req>>)]
                    /\ inflight' = inflight \cup {req}
    /\ unhandled' = Rejected(tasks')
    /\ UNCHANGED <<me, dcReady, delivered, invoked, tgOut, dcServer, messageMap, traffic>>

\* What Telegram may answer to getFile: the file's path on its servers, cut at the dots
FilePaths == { <<"music/file_5", "mp3">> }

\* Discord takes a send or an edit of at most ChunkSize characters, and finds a message
\* by its id in the channel it was sent to
Accepts(r) ==
    LET known == r.target \in 1..Len(dcServer)
                 /\ dcServer[r.target].channelId = r.channelId
    IN  CASE r.op = "send" -> Length(r.content) <= ChunkSize
          [] r.op = "fetchMessage" -> known
          [] r.op = "edit" -> known /\ Length(r.content) <= ChunkSize

\* what Discord holds once it has answered r
Served(r, ok) ==
    CASE ok /\ r.op = "send" ->
            Append(dcServer, [channelId |-> r.channelId, content |-> r.content,
                              file |-> r.file, task |-> r.task, idx |-> r.idx])
      [] ok /\ r.op = "edit" -> [dcServer EXCEPT ![r.target].content = r.content]
      [] OTHER -> dcServer

Failed(task) == [task EXCEPT !.errors = @ + 1]

\* Telegram answers getFile and getFileLink; sendFile goes on to the send (lines 51-63)
FileFetched(r, ok) ==
    /\ r.to = "telegram" /\ tasks[r.task].kind = "file"
    /\ LET task == tasks[r.task]
       IN  IF ~ok
           THEN /\ tasks' = [tasks EXCEPT ![r.task] =
                                FileCatch(Failed(task), "getFile rejected")]
                /\ inflight' = inflight \ {r}
           ELSE \E path \in FilePaths :
                LET file      == [file_path |-> path]
                    extension == IF task.local.resolveExtension
                                 THEN <<".", file.file_path[Len(file.file_path)]>>
                                 ELSE <<>>
                    req == SendRequest(r.task, task.bridge, 1, task.local.textToSend,
                                       task.local.fileName \o extension)
                IN  /\ tasks' = [tasks EXCEPT ![r.task] =
                                    Issue([task EXCEPT !.pc = "send"], <<req>>)]
                    /\ inflight' = (inflight \ {r}) \cup {req}
    /\ unhandled' = Rejected(tasks')
    /\ UNCHANGED <<me, dcReady, delivered, invoked, tgOut, dcServer, messageMap, traffic>>

\* TextSent, were a failed send caught inside the loop: the loop goes on with the next
\* chunk, and the message made of the last chunk is recorded
TextSentCarriesOn(r, ok) ==
    /\ r.to = "discord" /\ tasks[r.task].kind = "text"
    /\ ok => Accepts(r)
    /\ dcServer' = Served(r, ok)
    /\ LET task == IF ok THEN tasks[r.task] ELSE Failed(tasks[r.task])
           n    == Len(Chunks(task.local.composed))
           next == NextChunks(n, r.idx)
           reqs == [i \in 1..Len(next) |->
                      SendRequest(r.task, task.bridge, next[i],
                                  Chunks(task.local.composed)[next[i]], <<>>)]
       IN  IF r.idx = n
           THEN /\ tasks' = [tasks EXCEPT ![r.task] = [task EXCEPT !.pc = "done"]]
                /\ inflight' = inflight \ {r}
                /\ messageMap' = RecordMapping(messageMap, task.message, Len(dcServer'))
           ELSE /\ tasks' = [tasks EXCEPT ![r.task] = Issue(task, reqs)]
                /\ inflight' = (inflight \ {r}) \cup Range(reqs)
                /\ UNCHANGED messageMap
    /\ unhandled' = Rejected(tasks')
    /\ UNCHANGED <<me, dcReady, delivered, invoked, tgOut, traffic>>

\* Discord answers a chunk's send; the text handler goes on (lines 214-223)
TextSent(r, ok) ==
    /\ r.to = "discord" /\ tasks[r.task].kind = "text"
    /\ ok => Accepts(r)
    /\ dcServer' = Served(r, ok)
    /\ LET task == tasks[r.task]
           n    == Len(Chunks(task.local.composed))
           next == NextChunks(n, r.idx)
           reqs == [i \in 1..Len(next) |->
                      SendRequest(r.task, task.bridge, next[i],
                                  Chunks(task.local.composed)[next[i]], <<>>)]
       IN  IF task.pc # "send"
           THEN \* the handler has ended
                /\ tasks' = tasks
                /\ inflight' = inflight \ {r}
                /\ UNCHANGED messageMap
           ELSE IF ~ok
           THEN /\ tasks' = [tasks EXCEPT ![r.task] =
                                TextCatch(Failed(task), "send rejected")]
                /\ inflight' = inflight \ {r}
                /\ UNCHANGED messageMap
           ELSE IF r.idx = n
           THEN \* the loop is over: dcMessage is the message Discord made of this chunk
                /\ tasks' = [tasks EXCEPT ![r.task].pc = "done"]
                /\ inflight' = inflight \ {r}
                /\ messageMap' = RecordMapping(messageMap, task.message, Len(dcServer'))
           ELSE /\ tasks' = [tasks EXCEPT ![r.task] = Issue(task, reqs)]
                /\ inflight' = (inflight \ {r}) \cup Range(reqs)
                /\ UNCHANGED messageMap
    /\ unhandled' = Rejected(tasks')
    /\ UNCHANGED <<me, dcReady, delivered, invoked, tgOut, traffic>>

\* Discord answers the send of a file; sendFile and its caller end (lines 60-64)
FileSent(r, ok) ==
    /\ r.to = "discord" /\ tasks[r.task].kind = "file"
    /\ ok => Accepts(r)
    /\ dcServer' = Served(r, ok)
    /\ tasks' = [tasks EXCEPT ![r.task] =
                    IF ok THEN [@ EXCEPT !.pc = "done"]
                    ELSE FileCatch(Failed(@), "send rejected")]
    /\ inflight' = inflight \ {r}
    /\ unhandled' = Rejected(tasks')
    /\ UNCHANGED <<me, dcReady, delivered, invoked, tgOut, messageMap, traffic>>

\* NoticeSent, were the notice recorded in the message map like a text
NoticeSentRecorded(r, ok) ==
    /\ r.to = "discord" /\ tasks[r.task].kind \in {"join", "leave"}
    /\ ok => Accepts(r)
    /\ dcServer' = Served(r, ok)
    /\ tasks' = [tasks EXCEPT ![r.task] =
                    IF ok THEN [@ EXCEPT !.pc = "done"]
                    ELSE NoticeCatch(Failed(@), "send rejected")]
    /\ inflight' = inflight \ {r}
    /\ unhandled' = Rejected(tasks')
    /\ messageMap' = IF ok THEN RecordMapping(messageMap, tasks[r.task].message,
                                              Len(dcServer'))
                     ELSE messageMap
    /\ UNCHANGED <<me, dcReady, delivered, invoked, tgOut, traffic>>

\* Discord answers the send of a join or leave notice (lines 334-337, 355-358)
NoticeSent(r, ok) ==
    /\ r.to = "discord" /\ tasks[r.task].kind \in {"join", "leave"}
    /\ ok => Accepts(r)
    /\ dcServer' = Served(r, ok)
    /\ tasks' = [tasks EXCEPT ![r.task] =
                    IF ok THEN [@ EXCEPT !.pc = "done"]
                    ELSE NoticeCatch(Failed(@), "send rejected")]
    /\ inflight' = inflight \ {r}
    /\ unhandled' = Rejected(tasks')
    /\ UNCHANGED <<me, dcReady, delivered, invoked, tgOut, messageMap, traffic>>

\* Discord answers fetchMessage; the edit handler goes on to the edit (lines 371-376)
EditFetched(r, ok) ==
    /\ r.to = "discord" /\ r.op = "fetchMessage" /\ tasks[r.task].kind = "edit"
    /\ ok => Accepts(r)
    /\ LET task == tasks[r.task]
           req  == Request(r.task, "discord", "edit", r.channelId, 1,
                           messageConverter(task.message).composed, <<>>, r.target)
       IN  IF ~ok
           THEN /\ tasks' = [tasks EXCEPT ![r.task] =
                                EditCatch(Failed(task), "fetchMessage rejected")]
                /\ inflight' = inflight \ {r}
           ELSE /\ tasks' = [tasks EXCEPT ![r.task] =
                                Issue([task EXCEPT !.pc = "edit"], <<req>>)]
                /\ inflight' = (inflight \ {r}) \cup {req}
    /\ unhandled' = Rejected(tasks')
    /\ UNCHANGED <<me, dcReady, delivered, invoked, tgOut, dcServer, messageMap, traffic>>

\* Discord answers the edit; the edit handler ends (lines 376-380)
EditEdited(r, ok) ==
    /\ r.to = "discord" /\ r.op = "edit" /\ tasks[r.task].kind = "edit"
    /\ ok => Accepts(r)
    /\ dcServer' = Served(r, ok)
    /\ tasks' = [tasks EXCEPT ![r.task] =
                    IF ok THEN [@ EXCEPT !.pc = "done"]
                    ELSE EditCatch(Failed(@), "edit rejected")]
    /\ inflight' = inflight \ {r}
    /\ unhandled' = Rejected(tasks')
    /\ UNCHANGED <<me, dcReady, delivered, invoked, tgOut, messageMap, traffic>>

-----------------------------------------------------------------------------
(* The promises of the two bots *)

\* The Discord client has logged in: dcBot.ready is fulfilled
DcBotReady ==
    /\ ~dcReady
    /\ dcReady' = TRUE
    /\ UNCHANGED <<me, delivered, invoked, tgOut, tasks, inflight, dcServer,
                   messageMap, unhandled, traffic>>

\* lines 384-391: getMe() is fulfilled, and the bot's data put on the bot. (When getMe()
\* is rejected, lines 392-398, or not answered, this step never happens.)
GetMeResolved ==
    /\ me = <<>>
    /\ me' = <<Bot>>
    /\ UNCHANGED <<dcReady, delivered, invoked, tgOut, tasks, inflight, dcServer,
                   messageMap, unhandled, traffic>>

-----------------------------------------------------------------------------
(* The specification *)

\* setup() has returned: the handlers are registered, polling has started (line 188),
\* getMe() is on its way (line 384), and the Discord client may not be ready yet
Init ==
    /\ me = <<>>
    /\ dcReady = FALSE
    /\ delivered = <<>>
    /\ invoked = <<>>
    /\ tgOut = <<>>
    /\ tasks = <<>>
    /\ inflight = {}
    /\ dcServer = <<>>
    /\ messageMap = <<>>
    /\ unhandled = {}
    /\ traffic \in Traffics

Next ==
    \/ Dispatch
    \/ DcBotReady
    \/ GetMeResolved
    \/ \E t \in 1..Len(tasks) : TextReady(t)
    \/ \E t \in 1..Len(tasks) : FileReady(t)
    \/ \E t \in 1..Len(tasks) : NoticeReady(t)
    \/ \E t \in 1..Len(tasks) : EditReady(t)
    \/ \E r \in inflight, ok \in BOOLEAN : FileFetched(r, ok)
    \/ \E r \in inflight, ok \in BOOLEAN : TextSent(r, ok)
    \/ \E r \in inflight, ok \in BOOLEAN : FileSent(r, ok)
    \/ \E r \in inflight, ok \in BOOLEAN : NoticeSent(r, ok)
    \/ \E r \in inflight, ok \in BOOLEAN : EditFetched(r, ok)
    \/ \E r \in inflight, ok \in BOOLEAN : EditEdited(r, ok)

Spec == Init /\ [][Next]_vars

\* The text handler alone, on texts whose composed length lies at and around the
\* multiples of the chunk size; each comes with a short text of another message.
ComposedLengths ==
    {ChunkSize - 1, ChunkSize, ChunkSize + 1,
     2 * ChunkSize - 1, 2 * ChunkSize, 2 * ChunkSize + 1, 3 * ChunkSize}

\* a text that messageConverter composes to n characters
TextComposedTo(n) ==
    TextOfLength(n - Length(messageConverter(Message(1, 1)).composed))

SizedTraffics ==
    { { OnMessage("text", TextMessage(1, 1, TextComposedTo(n))),
        OnMessage("text", TextMessage(2, 1, Hi)) } : n \in ComposedLengths }

InitText ==
    /\ me = <<>>
    /\ dcReady = FALSE
    /\ delivered = <<>>
    /\ invoked = <<>>
    /\ tgOut = <<>>
    /\ tasks = <<>>
    /\ inflight = {}
    /\ dcServer = <<>>
    /\ messageMap = <<>>
    /\ unhandled = {}
    /\ traffic \in SizedTraffics

NextText ==
    \/ Dispatch
    \/ DcBotReady
    \/ \E t \in 1..Len(tasks) : TextReady(t)
    \/ \E r \in inflight, ok \in BOOLEAN : TextSent(r, ok)

SpecText == InitText /\ [][NextText]_vars

\* The document handler alone, on documents with and without a file name, of content
\* types mime knows and of one it does not know.
MimeTypes == {"audio/ogg", "audio/mpeg", "video/mp4", "text/plain", "application/x-unknown"}

DocumentTraffics ==
    { { OnMessage("document", DocumentMessage(3, 1, Undefined, type)),
        OnMessage("document", DocumentMessage(4, 1, "notes.txt", type)) } : type \in MimeTypes }

InitFiles ==
    /\ me = <<>>
    /\ dcReady = FALSE
    /\ delivered = <<>>
    /\ invoked = <<>>
    /\ tgOut = <<>>
    /\ tasks = <<>>
    /\ inflight = {}
    /\ dcServer = <<>>
    /\ messageMap = <<>>
    /\ unhandled = {}
    /\ traffic \in DocumentTraffics

NextFiles ==
    \/ Dispatch
    \/ DcBotReady
    \/ \E t \in 1..Len(tasks) : FileReady(t)
    \/ \E r \in inflight, ok \in BOOLEAN : FileFetched(r, ok)
    \/ \E r \in inflight, ok \in BOOLEAN : FileSent(r, ok)

SpecFiles == InitFiles /\ [][NextFiles]_vars

\* The text handler and the edit handler, on texts and edits whose message ids meet
InitEdits ==
    /\ me = <<>>
    /\ dcReady = FALSE
    /\ delivered = <<>>
    /\ invoked = <<>>
    /\ tgOut = <<>>
    /\ tasks = <<>>
    /\ inflight = {}
    /\ dcServer = <<>>
    /\ messageMap = <<>>
    /\ unhandled = {}
    /\ traffic = TextTraffic

NextEdits ==
    \/ Dispatch
    \/ DcBotReady
    \/ \E t \in 1..Len(tasks) : TextReady(t)
    \/ \E t \in 1..Len(tasks) : EditReady(t)
    \/ \E r \in inflight, ok \in BOOLEAN : TextSent(r, ok)
    \/ \E r \in inflight, ok \in BOOLEAN : EditFetched(r, ok)
    \/ \E r \in inflight, ok \in BOOLEAN : EditEdited(r, ok)

SpecEdits == InitEdits /\ [][NextEdits]_vars

\* A handler of every kind, with the Discord client sure to become ready and every call
\* to Telegram and Discord sure to be answered, well or badly
LiveTraffic ==
    { OnMessage("text", TextMessage(1, 1, LongText)),
      OnEditedMessage(TextMessage(1, 1, Hi)),
      OnMessage("audio", AudioMessage(3, 1, "Song", "audio/mpeg")),
      OnMessage("new_chat_members", JoinMessage(3, 1, <<Ann>>)) }

InitLive ==
    /\ me = <<>>
    /\ dcReady = FALSE
    /\ delivered = <<>>
    /\ invoked = <<>>
    /\ tgOut = <<>>
    /\ tasks = <<>>
    /\ inflight = {}
    /\ dcServer = <<>>
    /\ messageMap = <<>>
    /\ unhandled = {}
    /\ traffic = LiveTraffic

\* a handler goes on: from dcBot.ready, or from the answer to a call it awaits
Progress ==
    \/ \E t \in 1..Len(tasks) : TextReady(t)
    \/ \E t \in 1..Len(tasks) : FileReady(t)
    \/ \E t \in 1..Len(tasks) : NoticeReady(t)
    \/ \E t \in 1..Len(tasks) : EditReady(t)
    \/ \E r \in inflight, ok \in BOOLEAN : FileFetched(r, ok)
    \/ \E r \in inflight, ok \in BOOLEAN : TextSent(r, ok)
    \/ \E r \in inflight, ok \in BOOLEAN : FileSent(r, ok)
    \/ \E r \in inflight, ok \in BOOLEAN : NoticeSent(r, ok)
    \/ \E r \in inflight, ok \in BOOLEAN : EditFetched(r, ok)
    \/ \E r \in inflight, ok \in BOOLEAN : EditEdited(r, ok)

NextLive ==
    \/ Dispatch
    \/ DcBotReady
    \/ Progress

SpecLive ==
    /\ InitLive /\ [][NextLive]_vars
    /\ WF_vars(DcBotReady)
    /\ WF_vars(Progress)

\* The join and leave handlers next to the text handler, which fills the message map
MemberAndTextTraffic == MemberTraffic \cup {Plain}

InitMembers ==
    /\ me = <<>>
    /\ dcReady = FALSE
    /\ delivered = <<>>
    /\ invoked = <<>>
    /\ tgOut = <<>>
    /\ tasks = <<>>
    /\ inflight = {}
    /\ dcServer = <<>>
    /\ messageMap = <<>>
    /\ unhandled = {}
    /\ traffic = MemberAndTextTraffic

NextMembers ==
    \/ Dispatch
    \/ DcBotReady
    \/ \E t \in 1..Len(tasks) : TextReady(t)
    \/ \E t \in 1..Len(tasks) : NoticeReady(t)
    \/ \E r \in inflight, ok \in BOOLEAN : TextSent(r, ok)
    \/ \E r \in inflight, ok \in BOOLEAN : NoticeSent(r, ok)

SpecMembers == InitMembers /\ [][NextMembers]_vars

-----------------------------------------------------------------------------
(* What the state tells of an update *)

Events == 1..Len(delivered)

\* the message of the ev-th update
MessageOf(ev) ==
    LET ctx == delivered[ev].ctx
    IN  IF Has(ctx, "message") THEN ctx.message
        ELSE IF Has(ctx, "channel_post") THEN ctx.channel_post
        ELSE ctx.editedMessage

\* the bridges of a chat
BridgesOf(chatId) == {b \in Bridges : b.telegram.chatId = chatId}

\* the update's text is the chat-info command addressed to the bot, in some casing
IsCommand(ev) ==
    /\ Has(MessageOf(ev), "text")
    /\ MessageOf(ev).text \in {ChatInfoCommand, ChatInfoShouted}

\* the bot knew its own name when the update came
KnewItself(ev) == delivered[ev].me # <<>>

TasksOf(ev) == {t \in 1..Len(tasks) : tasks[t].ev = ev}
InvocationsOf(ev) == {i \in 1..Len(invoked) : invoked[i].ev = ev}
RepliesTo(ev) == {i \in 1..Len(tgOut) : tgOut[i].ev = ev}

\* the calls of a run to Discord with the given operation
CallsOf(t, op) ==
    {i \in 1..Len(tasks[t].calls) :
        tasks[t].calls[i].to = "discord" /\ tasks[t].calls[i].op = op}
DiscordCalls(t) == CallsOf(t, "send") \cup CallsOf(t, "fetchMessage") \cup CallsOf(t, "edit")

\* a call telling the chat that this is a private bot
IsAdvisory(call, chatId) ==
    /\ call.chat_id = chatId
    /\ Has(call, "parse_mode")
    /\ Len(call.text) = 4
    /\ call.text[1] =
        "This is an instance of a [TediCross](https://github.com/TediCross/TediCross) bot, "

\* a call telling the chat its id
IsChatId(call, chatId) ==
    /\ call.chat_id = chatId
    /\ ~Has(call, "parse_mode")
    /\ call.text = <<"chatID: ", chatId>>

\* no handler was called for the update, so nothing went to Discord and nothing into the
\* message map for it
NothingRelayed(ev) ==
    /\ InvocationsOf(ev) = {}
    /\ TasksOf(ev) = {}
    /\ \A i \in 1..Len(dcServer) : tasks[dcServer[i].task].ev # ev
    /\ \A k \in DOMAIN messageMap : tasks[dcServer[messageMap[k]].task].ev # ev

OneAdvisory(ev) ==
    /\ Cardinality(RepliesTo(ev)) = 1
    /\ \A i \in RepliesTo(ev) : IsAdvisory(tgOut[i].call, MessageOf(ev).chat.id)

-----------------------------------------------------------------------------
(* C1 *)

-----------------------------------------------------------------------------
(* C2 *)

\* the handler registered for the update was called once, with the update's message and
\* the bridge of its chat
CalledOnce(ev) ==
    /\ Cardinality(InvocationsOf(ev)) = 1
    /\ \A i \in InvocationsOf(ev) :
        /\ invoked[i].on = delivered[ev].ctx.on
        /\ invoked[i].message = MessageOf(ev)
        /\ invoked[i].bridge \in BridgesOf(MessageOf(ev).chat.id)

\* nothing at all was done for the update: no handler, no notice, no log
Silence(ev) ==
    /\ NothingRelayed(ev)
    /\ \A i \in RepliesTo(ev) : ~Has(tgOut[i].call, "parse_mode")
    /\ \A t \in 1..Len(tasks) : tasks[t].ev = ev => tasks[t].log = <<>>

-----------------------------------------------------------------------------
(* C7 *)

\* the update got the id of its chat as the one reply, and no handler was called
AnsweredWithChatId(ev) ==
    /\ Cardinality(RepliesTo(ev)) = 1
    /\ \A i \in RepliesTo(ev) : IsChatId(tgOut[i].call, MessageOf(ev).chat.id)
    /\ NothingRelayed(ev)

\* C7, as stated: every update whose text is the chat-info command addressed to the bot,
\* in any casing, whenever it comes and whatever its chat, is answered once with
\* "chatID: <chat id>", and nothing else is done for it.
ChatInfoAlwaysAnswered ==
    \A ev \in Events : IsCommand(ev) => AnsweredWithChatId(ev)

\* C7, amended: every such update that comes once getMe() has been fulfilled and the
\* bot's data put on the bot is answered once with "chatID: <chat id>", whatever its
\* chat, and nothing else is done for it.
ChatInfoAnsweredOnceKnown ==
    \A ev \in Events : IsCommand(ev) /\ KnewItself(ev) => AnsweredWithChatId(ev)

\* the command in capitals from the chat of bridge A and the command from the chat of the
\* discord-to-telegram bridge, both answered
ChatInfoSeen ==
    /\ Len(delivered) = 2
    /\ IsCommand(1) /\ MessageOf(1).text = ChatInfoShouted /\ MessageOf(1).chat.id = 1
    /\ IsCommand(2) /\ MessageOf(2).text = ChatInfoCommand /\ MessageOf(2).chat.id = 3
    /\ \A ev \in Events : KnewItself(ev) /\ AnsweredWithChatId(ev)

-----------------------------------------------------------------------------
(* C3 *)

EditTasks == {t \in 1..Len(tasks) : tasks[t].kind = "edit"}

\* the calls of run t with operation op all aim at Discord message id
AllAimAt(t, op, id) == \A i \in CallsOf(t, op) : tasks[t].calls[i].target = id

\* the edit handler found no entry: it called Discord for nothing and logged one line
DroppedWithLog(t) ==
    /\ DiscordCalls(t) = {}
    /\ Len(tasks[t].log) = 1

\* C3, as stated: with an entry S -> D in the map when the edit handler looks S up, the
\* handler makes exactly one edit call, on message D; with no entry, it makes no call to
\* Discord and logs one line.
EditFollowsEntry ==
    \A t \in EditTasks :
        tasks[t].pc = "done" =>
            IF tasks[t].local.entry # 0
            THEN /\ Cardinality(CallsOf(t, "edit")) = 1
                 /\ AllAimAt(t, "edit", tasks[t].local.entry)
            ELSE DroppedWithLog(t)

\* C3, amended: with an entry S -> D, the handler fetches message D once and, when the
\* fetch succeeds, makes exactly one edit call, on message D; when the fetch fails it
\* makes no edit call and logs the failure. With no entry, it makes no call to Discord
\* and logs one line.
EditFollowsEntryWhenFetched ==
    \A t \in EditTasks :
        /\ tasks[t].pc = "ready" => DiscordCalls(t) = {}
        /\ tasks[t].pc = "done" =>
            IF tasks[t].local.entry # 0
            THEN /\ Cardinality(CallsOf(t, "fetchMessage")) = 1
                 /\ AllAimAt(t, "fetchMessage", tasks[t].local.entry)
                 /\ CallsOf(t, "send") = {}
                 /\ AllAimAt(t, "edit", tasks[t].local.entry)
                 /\ IF Len(tasks[t].log) = 1 /\ tasks[t].log[1][4] = "fetchMessage rejected"
                    THEN CallsOf(t, "edit") = {}
                    ELSE Cardinality(CallsOf(t, "edit")) = 1
            ELSE DroppedWithLog(t)

\* a text was relayed and then edited: the edit found the entry and was made on the
\* message the entry names
EditSeen ==
    \E t \in EditTasks :
        /\ tasks[t].pc = "done" /\ tasks[t].errors = 0
        /\ tasks[t].local.entry # 0
        /\ messageMap[<<TELEGRAM_TO_DISCORD, tasks[t].message.message_id>>]
             = tasks[t].local.entry
        /\ Cardinality(CallsOf(t, "edit")) = 1
        /\ AllAimAt(t, "edit", tasks[t].local.entry)

-----------------------------------------------------------------------------
(* C5 *)

\* the handler run t goes on from `await dcBot.ready`
Resume(t) == TextReady(t) \/ FileReady(t) \/ NoticeReady(t) \/ EditReady(t)

\* C5: a failed send, edit, fetch or file retrieval is caught and logged in the handler
\* it happened in, which then ends; no handler's promise is rejected; and no other
\* handler is held up: every run that has not ended waits for dcBot.ready and goes on
\* once it is fulfilled, or waits for an answer that is on its way.
FailuresStayInside ==
    /\ unhandled = {}
    /\ \A t \in 1..Len(tasks) :
        /\ tasks[t].errors > 0 =>
            /\ tasks[t].errors = 1
            /\ tasks[t].pc = "done"
            /\ tasks[t].log # <<>>
            /\ \A i \in 1..Len(tasks[t].log) : tasks[t].log[i][2] = tasks[t].bridge.name
        /\ tasks[t].pc = "ready" /\ dcReady => ENABLED Resume(t)
        /\ tasks[t].pc \notin {"ready", "done"} => \E r \in inflight : r.task = t

\* the first update's send failed and was logged, and the text that came as the second
\* update is at Discord
FailureThenRelay ==
    \E t, u \in 1..Len(tasks) :
        /\ tasks[t].ev = 1 /\ tasks[t].errors = 1 /\ tasks[t].pc = "done"
        /\ CallsOf(t, "send") # {}
        /\ \A i \in 1..Len(dcServer) : dcServer[i].task # t
        /\ tasks[u].ev = 2 /\ tasks[u].kind = "text" /\ tasks[u].pc = "done"
        /\ tasks[u].errors = 0
        /\ \E i \in 1..Len(dcServer) : dcServer[i].task = u

-----------------------------------------------------------------------------
(* C6 *)

\* nothing has gone to Discord, and every handler run waits for dcBot.ready
Quiet ==
    /\ dcServer = <<>>
    /\ inflight = {}
    /\ \A t \in 1..Len(tasks) : tasks[t].pc = "ready" /\ tasks[t].calls = <<>>

\* C6: while dcBot.ready is not fulfilled no handler calls send, fetchMessage or edit,
\* and the handlers of the updates that came wait; once fulfilled it stays fulfilled,
\* and every handler that waits for it can go on.
ReadyGate ==
    /\ [](~dcReady => Quiet)
    /\ [](dcReady => \A t \in 1..Len(tasks) : tasks[t].pc = "ready" => ENABLED Resume(t))
    /\ [][dcReady => dcReady']_vars

\* two updates have come before the Discord client was ready, and their handlers wait
WaitingForReady ==
    /\ ~dcReady
    /\ Len(delivered) = 2
    /\ Len(tasks) >= 2
    /\ \A t \in 1..Len(tasks) : tasks[t].pc = "ready"

-----------------------------------------------------------------------------
(* C4 *)

TextTasks == {t \in 1..Len(tasks) : tasks[t].kind = "text"}

\* what run t sent, in the order of the calls
SentBy(t) ==
    LET calls == tasks[t].calls
        F[i \in 0..Len(calls)] ==
            IF i = 0 THEN <<>>
            ELSE IF calls[i].op = "send" THEN Append(F[i - 1], calls[i].content)
            ELSE F[i - 1]
    IN  F[Len(calls)]

\* the texts of a sequence, put together
Joined(texts) ==
    LET F[i \in 0..Len(texts)] ==
            IF i = 0 THEN Str(<<>>, 0) ELSE Concat(F[i - 1], texts[i])
    IN  F[Len(texts)]

\* ceil(n / k)
Ceil(n, k) == (n + k - 1) \div k

\* the Discord message made of the chunk of run t that was sent last
LastOf(t) ==
    CHOOSE i \in 1..Len(dcServer) :
        dcServer[i].task = t /\ dcServer[i].idx = Len(SentBy(t))

\* the text runs that relayed message id to the end
RelayedInFull(id) ==
    {u \in TextTasks : /\ tasks[u].message.message_id = id
                       /\ tasks[u].pc = "done" /\ tasks[u].errors = 0}

\* C4: a composed text of L characters that was relayed to the end went out as
\* ceil(L / 2000) chunks of at most 2000 characters each which, put together in the
\* order sent, are the composed text; and the map holds for the message's id the id of
\* a Discord message made of a last chunk, never of an earlier one.
ChunksMakeTheText ==
    /\ \A t \in TextTasks :
        LET composed == messageConverter(tasks[t].message).composed
            sent     == SentBy(t)
        IN  tasks[t].pc = "done" /\ tasks[t].errors = 0 =>
                /\ Len(sent) = Ceil(Length(composed), 2000)
                /\ \A i \in 1..Len(sent) : Length(sent[i]) \in 1..2000
                /\ Joined(sent) = composed
                /\ <<TELEGRAM_TO_DISCORD, tasks[t].message.message_id>> \in DOMAIN messageMap
    /\ \A k \in DOMAIN messageMap :
        /\ k[1] = TELEGRAM_TO_DISCORD
        /\ messageMap[k] \in {LastOf(u) : u \in RelayedInFull(k[2])}

\* a text composed to 4001 characters went out as three chunks, the last of one
\* character, and the map names the Discord message made of that one
ThreeChunksSeen ==
    \E t \in TextTasks :
        /\ tasks[t].pc = "done" /\ tasks[t].errors = 0
        /\ Length(messageConverter(tasks[t].message).composed) = 4001
        /\ Len(SentBy(t)) = 3
        /\ Length(SentBy(t)[3]) = 1
        /\ messageMap[<<TELEGRAM_TO_DISCORD, tasks[t].message.message_id>>] = LastOf(t)
        /\ Length(dcServer[LastOf(t)].content) = 1

-----------------------------------------------------------------------------
(* C9 *)

\* C9: a text run has at most one send on its way, the send of chunk k + 1 is on its
\* way only when chunk k is at Discord, and the chunks of one run are at Discord in
\* their order, whatever else is sent in between.
ChunksInOrder ==
    /\ \A r \in inflight :
        tasks[r.task].kind = "text" =>
            /\ \A q \in inflight : q.task = r.task => q = r
            /\ \A k \in 1..(r.idx - 1) :
                \E i \in 1..Len(dcServer) : dcServer[i].task = r.task /\ dcServer[i].idx = k
            /\ \A i \in 1..Len(dcServer) : dcServer[i].task = r.task => dcServer[i].idx < r.idx
    /\ \A i, j \in 1..Len(dcServer) :
        /\ i < j
        /\ dcServer[i].task = dcServer[j].task
        /\ tasks[dcServer[i].task].kind = "text"
        => dcServer[i].idx < dcServer[j].idx
    /\ \A i \in 1..Len(dcServer) :
        tasks[dcServer[i].task].kind = "text" =>
            dcServer[i].content = Chunks(tasks[dcServer[i].task].local.composed)[dcServer[i].idx]

\* the chunks of one text are at Discord in their order, with another message's text
\* between the first and the second
InterleavedSeen ==
    \E i, j, k \in 1..Len(dcServer) :
        /\ i < j /\ j < k
        /\ dcServer[i].task = dcServer[k].task
        /\ dcServer[j].task # dcServer[i].task
        /\ dcServer[i].idx = 1 /\ dcServer[k].idx = 2

-----------------------------------------------------------------------------
(* C8 *)

\* the runs of update ev, in the order they were started
RunsOf(ev) ==
    LET F[t \in 0..Len(tasks)] ==
            IF t = 0 THEN <<>>
            ELSE IF tasks[t].ev = ev THEN Append(F[t - 1], t) ELSE F[t - 1]
    IN  F[Len(tasks)]

\* the display name and the handle a notice about the user is to show
DisplayName(user) ==
    IF user.last_name # Undefined THEN <<user.first_name, " ", user.last_name>>
    ELSE <<user.first_name>>

Handle(user) ==
    IF user.username # Undefined THEN <<"@", user.username>> ELSE <<"No username">>

\* run t is the notice about the user: it sends once, when dcBot.ready is fulfilled, a
\* text with the user's display name and handle, and nothing else
NoticeAbout(t, user) ==
    /\ tasks[t].kind \in {"join", "leave"}
    /\ Len(tasks[t].calls) = IF tasks[t].pc = "ready" THEN 0 ELSE 1
    /\ \A i \in 1..Len(tasks[t].calls) :
        /\ tasks[t].calls[i].op = "send"
        /\ tasks[t].calls[i].file = <<>>
        /\ Contains(tasks[t].calls[i].content, DisplayName(user) \o <<" (">> \o Handle(user))

\* the users a join or leave update is about
UsersOf(ev) ==
    IF Has(MessageOf(ev), "new_chat_members") THEN MessageOf(ev).new_chat_members
    ELSE <<MessageOf(ev).left_chat_member>>

\* C8: a join (leave) in a chat whose bridge has relayJoinMessages (relayLeaveMessages)
\* false makes no call to Discord; with the flag true there is one notice per user that
\* joined (one for the user that left), each sent once and showing the user's first name,
\* last name when there is one, and "@" with the username, or "No username".
NoticesFollowFlags ==
    \A i \in 1..Len(invoked) :
        invoked[i].on \in {"new_chat_members", "left_chat_member"} =>
            LET ev   == invoked[i].ev
                flag == IF invoked[i].on = "new_chat_members"
                        THEN invoked[i].bridge.telegram.relayJoinMessages
                        ELSE invoked[i].bridge.telegram.relayLeaveMessages
            IN  IF ~flag
                THEN /\ TasksOf(ev) = {}
                     /\ \A r \in inflight : tasks[r.task].ev # ev
                ELSE /\ Len(RunsOf(ev)) = Len(UsersOf(ev))
                     /\ \A u \in 1..Len(UsersOf(ev)) :
                            NoticeAbout(RunsOf(ev)[u], UsersOf(ev)[u])

\* Ann Lee (@ann) and B, who has no username, joined a chat whose bridge relays joins:
\* Discord has a notice about each; and a join in the chat whose bridge does not came to
\* nothing
NoticesSeen ==
    /\ \E i, j \in 1..Len(dcServer) :
        /\ i # j
        /\ Contains(dcServer[i].content, <<"A", " ", "Lee", " (", "@", "ann">>)
        /\ Contains(dcServer[j].content, <<"B", " (", "No username">>)
    /\ Len(delivered) = 2
    /\ Has(MessageOf(2), "new_chat_members")
    /\ MessageOf(2).chat.id = BridgeB.telegram.chatId
    /\ Cardinality(InvocationsOf(2)) = 1
    /\ TasksOf(2) = {}

-----------------------------------------------------------------------------
(* C10 *)

\* the runs that relay a new message: the text handler's and the file handlers'
RelayTasks == {t \in 1..Len(tasks) : tasks[t].kind \in {"text", "file"}}

\* C10, as stated: once a text, photo, sticker, document, voice, audio or video was sent
\* to Discord, the map has an entry from the id of the Telegram message to the id of a
\* Discord message made of it.
EveryRelayRecorded ==
    \A t \in RelayTasks :
        tasks[t].pc = "done" /\ tasks[t].errors = 0 =>
            LET key == <<TELEGRAM_TO_DISCORD, tasks[t].message.message_id>>
            IN  /\ key \in DOMAIN messageMap
                /\ tasks[dcServer[messageMap[key]].task].message.message_id
                     = tasks[t].message.message_id

\* a file is at Discord, its handler has ended without an error, and the map has no
\* entry for the message
FileRelayedUnrecorded ==
    \E t \in RelayTasks :
        /\ tasks[t].kind = "file" /\ tasks[t].pc = "done" /\ tasks[t].errors = 0
        /\ \E i \in 1..Len(dcServer) : dcServer[i].task = t /\ dcServer[i].file # <<>>
        /\ <<TELEGRAM_TO_DISCORD, tasks[t].message.message_id>> \notin DOMAIN messageMap

-----------------------------------------------------------------------------
(* C11 *)

\* the sends of files run t made: the calls to Discord that carry an attachment
FileSends(t) == {i \in CallsOf(t, "send") : tasks[t].calls[i].file # <<>>}

\* the caption put after the sender's name in what is sent with a file
CaptionOf(call) == call.content.chars[Len(call.content.chars)]

\* C11, as stated: a sticker is sent with its emoji as caption when the bridge of its
\* chat has sendEmojiWithStickers set, and with no caption when it has not.
StickerFollowsBridge ==
    \A t \in 1..Len(tasks) :
        tasks[t].kind = "file" /\ tasks[t].local.what = "sticker" =>
            \A i \in FileSends(t) :
                CaptionOf(tasks[t].calls[i]) =
                    IF tasks[t].bridge.telegram.sendEmojiWithStickers
                    THEN tasks[t].message.sticker.emoji ELSE ""

\* a sticker from the chat of bridge B, which has the flag off, is at Discord with its
\* emoji
StickerAgainstBridge ==
    \E i \in 1..Len(dcServer) :
        /\ tasks[dcServer[i].task].kind = "file"
        /\ tasks[dcServer[i].task].local.what = "sticker"
        /\ tasks[dcServer[i].task].bridge = BridgeB
        /\ ~BridgeB.telegram.sendEmojiWithStickers
        /\ dcServer[i].file = <<"sticker.webp">>
        /\ CaptionOf(dcServer[i]) = ":-)"

-----------------------------------------------------------------------------
(* C12 *)

\* the names under which the document of run t was sent
DocumentNames(t) == {tasks[t].calls[i].file : i \in FileSends(t)}

\* C12, as stated: a document with no file name is sent as "file." and the extension of
\* its content type, "file.ogg" for audio/ogg; a document with a file name is sent
\* under that name.
DocumentNamed ==
    \A t \in 1..Len(tasks) :
        tasks[t].kind = "file" /\ tasks[t].local.what = "document" =>
            LET document == tasks[t].message.document
            IN  DocumentNames(t) \subseteq
                    { IF document.file_name # Undefined THEN <<document.file_name>>
                      ELSE IF document.mime_type = "audio/ogg" THEN <<"file.", "ogg">>
                      ELSE <<"file.", getExtension(document.mime_type)>> }

\* C12, amended: a document with no file name is sent as "file." and what
\* mime.getExtension gives for its content type: the first extension mime lists for the
\* type ("oga" for audio/ogg), and "null" for a type mime does not know; a document with
\* a file name is sent under that name, nothing appended.
DocumentNamedByMime ==
    \A t \in 1..Len(tasks) :
        tasks[t].kind = "file" /\ tasks[t].local.what = "document" =>
            LET document == tasks[t].message.document
                type     == document.mime_type
            IN  /\ Cardinality(FileSends(t)) <= 1
                /\ DocumentNames(t) \subseteq
                    { IF document.file_name # Undefined THEN <<document.file_name>>
                      ELSE CASE type = "audio/ogg" -> <<"file.", "oga">>
                             [] type = "audio/mpeg" -> <<"file.", "mpga">>
                             [] type = "video/mp4" -> <<"file.", "mp4">>
                             [] type = "text/plain" -> <<"file.", "txt">>
                             [] OTHER -> <<"file.", "null">> }

\* Discord has a document that came without a name and with a type mime does not know,
\* as "file.null", and one that came as "notes.txt", under that name
DocumentsSeen ==
    \E i, j \in 1..Len(dcServer) :
        /\ tasks[dcServer[i].task].message.document.file_name = Undefined
        /\ tasks[dcServer[i].task].message.document.mime_type = "application/x-unknown"
        /\ dcServer[i].file = <<"file.", "null">>
        /\ tasks[dcServer[j].task].message.document.file_name = "notes.txt"
        /\ dcServer[j].file = <<"notes.txt">>

-----------------------------------------------------------------------------
(* C13 *)

\* C13, as stated: a voice message is sent as "voice." and the extension of its content
\* type; an audio message is sent under a fixed name with the extension of its content
\* type, followed by the extension of the file's path at Telegram; no other field of the
\* message has a part in the name.
VoiceAndAudioNamed ==
    \A t \in 1..Len(tasks) :
        tasks[t].kind = "file" =>
            \A i \in FileSends(t) :
                LET file == tasks[t].calls[i].file
                IN  /\ tasks[t].local.what = "voice" =>
                        file = <<"voice", ".", getExtension(tasks[t].message.voice.mime_type)>>
                    /\ tasks[t].local.what = "audio" =>
                        /\ Len(file) = 5
                        /\ file[1] # tasks[t].message.audio.title
                        /\ SubSeq(file, 2, 3)
                             = <<".", getExtension(tasks[t].message.audio.mime_type)>>
                        /\ \E path \in FilePaths : SubSeq(file, 4, 5) = <<".", path[Len(path)]>>

\* the audio message titled "Song", of type audio/mpeg, is at Discord as "Song" and the
\* extension of its path at Telegram
AudioNamedByTitle ==
    \E i \in 1..Len(dcServer) :
        /\ tasks[dcServer[i].task].kind = "file"
        /\ tasks[dcServer[i].task].local.what = "audio"
        /\ tasks[dcServer[i].task].message.audio.title = "Song"
        /\ tasks[dcServer[i].task].message.audio.mime_type = "audio/mpeg"
        /\ dcServer[i].file = <<"Song", ".", "mp3">>

-----------------------------------------------------------------------------
(* C14 *)

\* a run of one of the kinds is started or goes on in this step
Acts(kinds) ==
    \E t \in 1..Len(tasks') :
        /\ tasks'[t].kind \in kinds
        /\ t > Len(tasks) \/ tasks'[t] # tasks[t]

\* C14: the edit handler makes no send and at most one edit call, whose content is the
\* whole composed text of the edited message, however long; a failure of the fetch or of
\* the edit is logged in one line and the handler ends, its promise fulfilled; and no step
\* of an edit handler changes the message map or adds a message at Discord.
EditInOneCall ==
    /\ [](\A t \in EditTasks :
            /\ CallsOf(t, "send") = {}
            /\ Cardinality(CallsOf(t, "edit")) <= 1
            /\ \A i \in CallsOf(t, "edit") :
                /\ tasks[t].calls[i].content = messageConverter(tasks[t].message).composed
                /\ Length(tasks[t].calls[i].content) = 6 + Length(tasks[t].message.text)
            /\ tasks[t].pc = "done" /\ tasks[t].local.entry # 0 /\ tasks[t].errors = 0
                 => Cardinality(CallsOf(t, "edit")) = 1
            /\ tasks[t].errors > 0 =>
                /\ tasks[t].pc = "done"
                /\ Len(tasks[t].log) = 1
            /\ t \notin unhandled
            /\ \A i \in 1..Len(dcServer) : dcServer[i].task # t)
    /\ [][Acts({"edit"}) => messageMap' = messageMap /\ Len(dcServer') = Len(dcServer)]_vars

\* a text was relayed and then edited to a text over the limit: the one edit call, with
\* all of the composed text, was refused and logged; the message at Discord and the
\* entry of the map are as they were
LongEditSeen ==
    \E t \in EditTasks :
        /\ tasks[t].pc = "done" /\ tasks[t].errors = 1
        /\ Cardinality(CallsOf(t, "edit")) = 1
        /\ \A i \in CallsOf(t, "edit") : Length(tasks[t].calls[i].content) > 2000
        /\ tasks[t].log = << <<"[", "A", "] Could not edit Discord message:", "edit rejected">> >>
        /\ Len(dcServer) = 1
        /\ dcServer[1].content = messageConverter(TextMessage(1, 1, Hi)).composed
        /\ messageMap = (<<TELEGRAM_TO_DISCORD, 1>> :> 1)

-----------------------------------------------------------------------------
(* C15 *)

\* C15: no step of a join or leave handler changes the message map: not the arrival of
\* the update, with the flag on or off, not the send of the notice, not its success and
\* not its failure.
NoticesLeaveTheMap ==
    [][ \/ Acts({"join", "leave"})
        \/ /\ Len(delivered') > Len(delivered)
           /\ delivered'[Len(delivered')].ctx.on \in {"new_chat_members", "left_chat_member"}
        => messageMap' = messageMap ]_vars

\* with an entry in the map, two users joined: one notice is at Discord, the other was
\* refused, and the map has the one entry it had
NoticesWithEntrySeen ==
    /\ Len(delivered) = 2
    /\ \E t, u \in TasksOf(2) :
        /\ tasks[t].kind = "join" /\ tasks[t].pc = "done" /\ tasks[t].errors = 0
        /\ tasks[u].kind = "join" /\ tasks[u].pc = "done" /\ tasks[u].errors = 1
        /\ \E i \in 1..Len(dcServer) : dcServer[i].task = t
    /\ messageMap = (<<TELEGRAM_TO_DISCORD, 1>> :> 1)

-----------------------------------------------------------------------------
(* C16 *)

\* in this step a text run that relayed its message to the end writes key k: the entry
\* is the id of the message Discord has just made
Writes(k) ==
    \E t \in TextTasks :
        /\ tasks[t].pc = "send" /\ tasks'[t].pc = "done" /\ tasks'[t].errors = 0
        /\ k = <<TELEGRAM_TO_DISCORD, tasks[t].message.message_id>>
        /\ k \in DOMAIN messageMap'
        /\ messageMap'[k] = Len(dcServer')
        /\ Len(dcServer') = Len(dcServer) + 1

\* C16: whatever handlers run side by side, the map has for a key the id written last:
\* an entry is never removed; it changes, or comes to be, only in the step that writes
\* its key, and then it is the id of that write; every step that ends a relayed text
\* writes its key; entries of other keys stay as they are.
LastWriteWins ==
    [][ /\ \A k \in DOMAIN messageMap :
            /\ k \in DOMAIN messageMap'
            /\ messageMap'[k] # messageMap[k] => Writes(k)
        /\ \A k \in DOMAIN messageMap' \ DOMAIN messageMap : Writes(k)
        /\ \A t \in TextTasks :
            tasks[t].pc = "send" /\ tasks'[t].pc = "done" /\ tasks'[t].errors = 0
                => Writes(<<TELEGRAM_TO_DISCORD, tasks[t].message.message_id>>) ]_vars

\* the same message was relayed twice: the map has the id of the message made last, not
\* of the one made first
OverwrittenSeen ==
    \E t, u \in TextTasks :
        /\ t # u
        /\ tasks[t].message.message_id = tasks[u].message.message_id
        /\ tasks[t].pc = "done" /\ tasks[t].errors = 0
        /\ tasks[u].pc = "done" /\ tasks[u].errors = 0
        /\ LastOf(t) < LastOf(u)
        /\ messageMap[<<TELEGRAM_TO_DISCORD, tasks[t].message.message_id>>] = LastOf(u)

-----------------------------------------------------------------------------
(* C17 *)

\* the chunks of run t that are at Discord
ChunksAtDiscord(t) == {dcServer[i].idx : i \in {j \in 1..Len(dcServer) : dcServer[j].task = t}}

\* C17: when the send of chunk k fails the text handler ends: chunks 1 to k were sent,
\* each once, none after k; chunks 1 to k - 1 are at Discord; and the handler wrote no
\* entry: the map has an entry for a message only when a run sent all of its chunks.
FailedChunkEndsRelay ==
    /\ \A t \in TextTasks :
        tasks[t].errors > 0 =>
            LET k == Len(SentBy(t))
            IN  /\ tasks[t].errors = 1
                /\ tasks[t].pc = "done"
                /\ \A r \in inflight : r.task # t
                /\ k \in 1..Ceil(Length(tasks[t].local.composed), 2000)
                /\ \A i \in 1..k :
                    SentBy(t)[i] = Slice(tasks[t].local.composed, 2000 * (i - 1) + 1,
                                         IF 2000 * i < Length(tasks[t].local.composed)
                                         THEN 2000 * i ELSE Length(tasks[t].local.composed))
                /\ ChunksAtDiscord(t) = 1..(k - 1)
                /\ \A key \in DOMAIN messageMap :
                    /\ messageMap[key] \in 1..Len(dcServer)
                    /\ dcServer[messageMap[key]].task # t
    /\ \A key \in DOMAIN messageMap :
        \E u \in TextTasks :
            /\ tasks[u].message.message_id = key[2]
            /\ tasks[u].errors = 0
            /\ ChunksAtDiscord(u) = 1..Ceil(Length(tasks[u].local.composed), 2000)

\* of a text of three chunks the second was refused: the first is at Discord, the third
\* was never sent, and the map has no entry for the message
SecondChunkFailedSeen ==
    \E t \in TextTasks :
        /\ Ceil(Length(tasks[t].local.composed), 2000) = 3
        /\ tasks[t].errors = 1 /\ tasks[t].pc = "done"
        /\ Len(SentBy(t)) = 2
        /\ ChunksAtDiscord(t) = {1}
        /\ <<TELEGRAM_TO_DISCORD, tasks[t].message.message_id>> \notin DOMAIN messageMap

-----------------------------------------------------------------------------
(* C18 *)

\* C18: the edit handler looks the entry up once, when it goes on after dcBot.ready; an
\* edit call is made only by a run that found the entry then; a run that found none has
\* ended with one log line and no call to Discord, and a run that has ended does nothing
\* more; so a message at Discord has another content than it was sent with only by the
\* edit of a run that found its entry.
EditOnlyWithEntry ==
    /\ [](\A t \in EditTasks :
            /\ tasks[t].pc = "ready" => tasks[t].log = <<>> /\ tasks[t].calls = <<>>
            /\ CallsOf(t, "edit") # {} => tasks[t].local.entry # 0
            /\ tasks[t].pc # "ready" /\ tasks[t].local.entry = 0 =>
                /\ tasks[t].pc = "done"
                /\ DiscordCalls(t) = {}
                /\ tasks[t].log = << <<"[", tasks[t].bridge.name,
                                      "] Could not edit Discord message:",
                                      "No corresponding message">> >>)
    /\ [](\A i \in 1..Len(dcServer) :
            dcServer[i].content
                # Chunks(tasks[dcServer[i].task].local.composed)[dcServer[i].idx]
            => \E t \in EditTasks :
                /\ tasks[t].local.entry = i
                /\ tasks[t].pc = "done" /\ tasks[t].errors = 0
                /\ dcServer[i].content = messageConverter(tasks[t].message).composed)
    /\ [][\A t \in 1..Len(tasks) : tasks[t].pc = "done" => tasks'[t] = tasks[t]]_vars

\* a text of two chunks is on its way, the first chunk at Discord and no entry written
\* yet, and the edit of it that came meanwhile has been dropped
EditDuringRelaySeen ==
    \E t \in TextTasks, e \in EditTasks :
        /\ tasks[t].message.message_id = tasks[e].message.message_id
        /\ tasks[t].ev < tasks[e].ev
        /\ tasks[t].pc = "send" /\ ChunksAtDiscord(t) = {1}
        /\ messageMap = <<>>
        /\ tasks[e].pc = "done" /\ tasks[e].local.entry = 0
        /\ DiscordCalls(e) = {}
        /\ Len(tasks[e].log) = 1

-----------------------------------------------------------------------------
(* C19 *)

\* run t has put at Discord what it was started for
Relayed(t) ==
    /\ tasks[t].errors = 0
    /\ CASE tasks[t].kind = "text" ->
                ChunksAtDiscord(t) = 1..Ceil(Length(tasks[t].local.composed), 2000)
         [] tasks[t].kind = "edit" ->
                /\ tasks[t].local.entry # 0
                /\ dcServer[tasks[t].local.entry].content
                     = messageConverter(tasks[t].message).composed
         [] OTHER -> \E i \in 1..Len(dcServer) : dcServer[i].task = t

Unfinished == {t \in 1..Len(tasks) : tasks[t].pc # "done"}

\* C19: with dcBot.ready fulfilled in the end and every call answered in the end, every
\* handler that was started ends, and has then relayed its update or logged why not;
\* and as long as dcBot.ready is not fulfilled every handler waits, no call made.
HandlersEnd ==
    /\ (Unfinished # {}) ~> (Unfinished = {})
    /\ [](\A t \in 1..Len(tasks) :
            tasks[t].pc = "done" => Relayed(t) \/ tasks[t].log # <<>>)
    /\ [](~dcReady => \A t \in 1..Len(tasks) :
                        /\ t \in Unfinished
                        /\ tasks[t].calls = <<>>
                        /\ \A r \in inflight : r.task # t)

\* two handlers have ended, one with its update relayed, the other with a failure logged
EndedBothWaysSeen ==
    /\ Len(delivered) = 2
    /\ Unfinished = {}
    /\ inflight = {}
    /\ \E t, u \in 1..Len(tasks) :
        /\ Relayed(t) /\ tasks[t].log = <<>>
        /\ tasks[u].errors = 1 /\ tasks[u].log # <<>> /\ ~Relayed(u)

====
